---- MODULE Spec2Model ----
(***************************************************************************)
(* Model of bio_assembly_refinement/circularisation.py: the Circularisation *)
(* class.  A run trims the duplicated ends of contigs that carry a terminal *)
(* self-overlap, rotates each trimmed contig to start at its origin (dnaA)  *)
(* hit, renames it chromosomeN / plasmidN and writes the result sorted by   *)
(* size.                                                                    *)
(*                                                                          *)
(* Representation.  A Python str (a contig id, a contig name, a sequence)   *)
(* is a TLA+ sequence of one-character strings.  A dict is a function plus  *)
(* the sequence of its keys in insertion order.  A FASTA file is a sequence *)
(* of [name, seq] records, and the working directory is a function from     *)
(* file names to file contents.  The thresholds that the constructor        *)
(* multiplies by 0.01 are kept as the percentages passed in; a comparison   *)
(* x < (p * 0.01) * L is evaluated exactly as 100*x < p*L.                  *)
(***************************************************************************)
EXTENDS Integers, Sequences, FiniteSets, TLC

VARIABLES
    pc,                       \* position inside run()
    run_no,                   \* 1: first run, 2: run on the first run's output
    fasta_file,               \* self.fasta_file
    files,                    \* working directory: file name -> FASTA records
    contigs,                  \* self.contigs: id -> sequence
    contig_keys,              \* key order of self.contigs
    alignments,               \* self.alignments
    dnaA_alignments,          \* self.dnaA_alignments
    overlap_offset,           \* constructor argument (percent)
    overlap_boundary_max,     \* constructor argument (percent)
    overlap_min_length,       \* self.overlap_min_length
    overlap_percent_identity, \* self.overlap_percent_identity
    dnaA_hit_percent_identity,\* self.dnaA_hit_percent_identity
    dnaA_hit_length_minimum,  \* constructor argument (percent)
    debug,                    \* self.debug
    circularisable_contigs,   \* run()'s local list
    new_names                 \* run()'s local name map

vars == <<pc, run_no, fasta_file, files, contigs, contig_keys, alignments,
          dnaA_alignments, overlap_offset, overlap_boundary_max,
          overlap_min_length, overlap_percent_identity,
          dnaA_hit_percent_identity, dnaA_hit_length_minimum, debug,
          circularisable_contigs, new_names>>

config_vars == <<overlap_offset, overlap_boundary_max, overlap_min_length,
                 overlap_percent_identity, dnaA_hit_percent_identity,
                 dnaA_hit_length_minimum, debug>>

-----------------------------------------------------------------------------
(* Bounds of the model *)

MaxLen == 6

MaxAlgn == 2

MaxContigs == 3

(* Defaults of the constructor *)

DefaultOverlapOffset == 49

DefaultOverlapBoundaryMax == 50

DefaultOverlapPercentIdentity == 85

DefaultDnaAHitPercentIdentity == 80

DefaultDnaAHitLengthMinimum == 95

-----------------------------------------------------------------------------
(* Python built-ins used by the class *)

Min(a, b) == IF a < b THEN a ELSE b

Max(a, b) == IF a > b THEN a ELSE b

\* A slice bound i of a sequence of length n, as Python clamps it.
SliceIndex(i, n) == IF i < 0 THEN Max(i + n, 0) ELSE Min(i, n)

\* s[start:stop]
PySlice(s, start, stop) ==
    LET lo == SliceIndex(start, Len(s))
        hi == SliceIndex(stop, Len(s))
    IN  IF lo >= hi THEN << >> ELSE SubSeq(s, lo + 1, hi)

\* s[start:]
PySliceFrom(s, start) == PySlice(s, start, Len(s))

\* s[::-1]
Reverse(s) == [i \in 1..Len(s) |-> s[Len(s) + 1 - i]]

\* str.maketrans("ATCGatcg","TAGCtagc"): other characters map to themselves
Complement(ch) ==
    CASE ch = "A" -> "T"
      [] ch = "T" -> "A"
      [] ch = "C" -> "G"
      [] ch = "G" -> "C"
      [] ch = "a" -> "t"
      [] ch = "t" -> "a"
      [] ch = "c" -> "g"
      [] ch = "g" -> "c"
      [] OTHER -> ch

\* code points of the characters that occur in ids and names
CodePoint(ch) ==
    CASE ch = "0" -> 48 [] ch = "1" -> 49 [] ch = "2" -> 50 [] ch = "3" -> 51
      [] ch = "4" -> 52 [] ch = "5" -> 53 [] ch = "6" -> 54 [] ch = "7" -> 55
      [] ch = "8" -> 56 [] ch = "9" -> 57
      [] ch = "a" -> 97 [] ch = "c" -> 99 [] ch = "d" -> 100 [] ch = "e" -> 101
      [] ch = "h" -> 104 [] ch = "i" -> 105 [] ch = "l" -> 108
      [] ch = "m" -> 109 [] ch = "o" -> 111 [] ch = "p" -> 112
      [] ch = "r" -> 114 [] ch = "s" -> 115

\* a < b for two str values: code point order, a proper prefix is smaller
StrLess(a, b) ==
    \E k \in 1..(Min(Len(a), Len(b)) + 1) :
        /\ \A j \in 1..(k - 1) : a[j] = b[j]
        /\ \/ k = Len(a) + 1 /\ k <= Len(b)
           \/ k <= Len(a) /\ k <= Len(b) /\ CodePoint(a[k]) < CodePoint(b[k])

Digit(d) == <<"0", "1", "2", "3", "4", "5", "6", "7", "8", "9">>[d + 1]

RECURSIVE Str(_)
\* str(n) for n >= 0
Str(n) == IF n < 10 THEN <<Digit(n)>> ELSE Str(n \div 10) \o <<Digit(n % 10)>>

RECURSIVE InsertSorted(_, _)
InsertSorted(x, sorted) ==
    IF sorted = << >> THEN <<x>>
    ELSE IF StrLess(x, Head(sorted)) THEN <<x>> \o sorted
    ELSE <<Head(sorted)>> \o InsertSorted(x, Tail(sorted))

RECURSIVE SortIds(_)
\* list.sort() on a list of str
SortIds(ids) ==
    IF ids = << >> THEN << >>
    ELSE InsertSorted(ids[Len(ids)], SortIds(SubSeq(ids, 1, Len(ids) - 1)))

\* index of the first TRUE of a list of truth values, 0 if there is none:
\* where a for loop that breaks on its condition stops
FirstIndex(hits) ==
    IF \E i \in 1..Len(hits) : hits[i]
    THEN CHOOSE i \in 1..Len(hits) : hits[i] /\ \A j \in 1..(i - 1) : ~hits[j]
    ELSE 0

Range(s) == {s[i] : i \in 1..Len(s)}

EmptyDict == [k \in {} |-> << >>]

DictSet(d, k, v) == [x \in (DOMAIN d) \cup {k} |-> IF x = k THEN v ELSE d[x]]

-----------------------------------------------------------------------------
(* Alignment records (pymummer.alignment.Alignment), coordinates 0-based *)

Algn(rn, qn, rs, re, qs, qe, rl, ql, hl, pid) ==
    [ref_name |-> rn, qry_name |-> qn, ref_start |-> rs, ref_end |-> re,
     qry_start |-> qs, qry_end |-> qe, ref_length |-> rl, qry_length |-> ql,
     hit_length_ref |-> hl, percent_identity |-> pid]

\* algn.on_same_strand()
OnSameStrand(algn) ==
    (algn.ref_start < algn.ref_end) = (algn.qry_start < algn.qry_end)

-----------------------------------------------------------------------------
(* File names and FASTA files *)

IntermediateFilename == <<"trimmed.fa">>

UnsortedCircularisedFilename == <<"unsorted_circularised_">> \o fasta_file

FinalFilename == <<"circularised_">> \o fasta_file

\* tasks.file_to_dict: the records of a FASTA file as id -> sequence
FileToDict(content) ==
    [id \in {content[i].name : i \in 1..Len(content)} |->
        content[CHOOSE i \in 1..Len(content) :
                    /\ content[i].name = id
                    /\ \A j \in (i + 1)..Len(content) : content[j].name # id].seq]

RECURSIVE FileKeys(_)
\* the key order of the dict file_to_dict fills: first occurrence of each name
FileKeys(content) ==
    IF content = << >> THEN << >>
    ELSE LET front == FileKeys(SubSeq(content, 1, Len(content) - 1))
             name == content[Len(content)].name
         IN  IF name \in Range(front) THEN front ELSE Append(front, name)

\* _write_contigs_to_file(contig_ids, out_file, new_names_map)
WriteContigs(contig_ids, new_names_map) ==
    [k \in 1..Len(contig_ids) |->
        [name |-> IF DOMAIN new_names_map # {}
                  THEN new_names_map[contig_ids[k]]
                  ELSE contig_ids[k],
         seq  |-> contigs[contig_ids[k]]]]

RECURSIVE InsertBySize(_, _)
InsertBySize(rec, sorted) ==
    IF sorted = << >> THEN <<rec>>
    ELSE IF Len(rec.seq) > Len(Head(sorted).seq) THEN <<rec>> \o sorted
    ELSE <<Head(sorted)>> \o InsertBySize(rec, Tail(sorted))

RECURSIVE SortBySizeFrom(_, _)
SortBySizeFrom(content, k) ==
    IF k = 0 THEN << >>
    ELSE InsertBySize(content[k], SortBySizeFrom(content, k - 1))

\* tasks.sort_by_size: longest first, equal lengths keep their order
SortedBySize(content) ==
    LET d == FileToDict(content)
        keys == FileKeys(content)
        recs == [k \in 1..Len(keys) |-> [name |-> keys[k], seq |-> d[keys[k]]]]
    IN  SortBySizeFrom(recs, Len(recs))

\* utils.delete
Delete(fs, name) == [f \in (DOMAIN fs) \ {name} |-> fs[f]]

-----------------------------------------------------------------------------
(* _look_for_overlap_and_trim *)

\* faulty variant: the query name is not compared
OverlapQualifies_AnyQuery(algn, contig_id, L) ==
    /\ algn.ref_name = contig_id
    /\ 100 * algn.ref_start < overlap_offset * L
    /\ 100 * algn.ref_end < overlap_boundary_max * L
    /\ 100 * algn.qry_end > overlap_boundary_max * L
    /\ 100 * algn.qry_start > 100 * algn.qry_length - overlap_offset * L
    /\ algn.hit_length_ref > overlap_min_length
    /\ algn.percent_identity > overlap_percent_identity

\* faulty variant: the identity threshold is not strict
OverlapQualifies_NonStrictIdentity(algn, contig_id, L) ==
    /\ algn.qry_name = contig_id
    /\ algn.ref_name = contig_id
    /\ 100 * algn.ref_start < overlap_offset * L
    /\ 100 * algn.ref_end < overlap_boundary_max * L
    /\ 100 * algn.qry_end > overlap_boundary_max * L
    /\ 100 * algn.qry_start > 100 * algn.qry_length - overlap_offset * L
    /\ algn.hit_length_ref > overlap_min_length
    /\ algn.percent_identity >= overlap_percent_identity

\* faulty variant: ref_end is not compared with the boundary
OverlapQualifies_NoRefBoundary(algn, contig_id, L) ==
    /\ algn.qry_name = contig_id
    /\ algn.ref_name = contig_id
    /\ 100 * algn.ref_start < overlap_offset * L
    /\ 100 * algn.qry_end > overlap_boundary_max * L
    /\ 100 * algn.qry_start > 100 * algn.qry_length - overlap_offset * L
    /\ algn.hit_length_ref > overlap_min_length
    /\ algn.percent_identity > overlap_percent_identity

\* the condition of lines 97-104 for a contig of length L
OverlapQualifies(algn, contig_id, L) ==
    /\ algn.qry_name = contig_id
    /\ algn.ref_name = contig_id
    /\ 100 * algn.ref_start < overlap_offset * L
    /\ 100 * algn.ref_end < overlap_boundary_max * L
    /\ 100 * algn.qry_end > overlap_boundary_max * L
    /\ 100 * algn.qry_start > 100 * algn.qry_length - overlap_offset * L
    /\ algn.hit_length_ref > overlap_min_length
    /\ algn.percent_identity > overlap_percent_identity

\* faulty variant: the slice starts at ref_end
Trim_FromRefEnd(original_sequence, algn) ==
    PySlice(original_sequence, algn.ref_end, algn.qry_start + 1)

\* original_sequence[algn.ref_end+1:algn.qry_start+1]
Trim(original_sequence, algn) ==
    PySlice(original_sequence, algn.ref_end + 1, algn.qry_start + 1)

\* the alignment the inner loop stops at for a contig (0: none)
AcceptedOverlap(algns, contig_id, L) ==
    FirstIndex([i \in 1..Len(algns) |-> OverlapQualifies(algns[i], contig_id, L)])

RECURSIVE TrimLoop(_, _, _)
\* the loop over self.contigs.keys(), from the k-th key on
TrimLoop(k, cs, circ) ==
    IF k > Len(contig_keys)
    THEN [contigs |-> cs, circularisable_contigs |-> circ]
    ELSE LET contig_id == contig_keys[k]
             i == AcceptedOverlap(alignments, contig_id, Len(cs[contig_id]))
         IN  IF i = 0
             THEN TrimLoop(k + 1, cs, circ)
             ELSE TrimLoop(k + 1,
                           [cs EXCEPT ![contig_id] = Trim(cs[contig_id], alignments[i])],
                           Append(circ, contig_id))

LookForOverlapAndTrim ==
    /\ pc = "start"
    /\ LET r == TrimLoop(1, contigs, << >>)
       IN  /\ contigs' = r.contigs
           /\ circularisable_contigs' = r.circularisable_contigs
    /\ pc' = "trimmed"
    /\ UNCHANGED <<run_no, fasta_file, files, contig_keys, alignments,
                   dnaA_alignments, config_vars, new_names>>

\* run(), line 201: all contigs, under their ids, to trimmed.fa
WriteTrimmed ==
    /\ pc = "trimmed"
    /\ files' = DictSet(files, IntermediateFilename,
                        WriteContigs(contig_keys, EmptyDict))
    /\ pc' = "intermediate"
    /\ UNCHANGED <<run_no, fasta_file, contigs, contig_keys, alignments,
                   dnaA_alignments, config_vars, circularisable_contigs,
                   new_names>>

-----------------------------------------------------------------------------
(* _circularise_and_rename *)

\* the condition of lines 130-132
OriginQualifies(algn, contig_id) ==
    /\ algn.ref_name = contig_id
    /\ 100 * algn.hit_length_ref > dnaA_hit_length_minimum * algn.qry_length
    /\ algn.percent_identity > dnaA_hit_percent_identity

\* the alignment the inner loop stops at for a contig (0: none)
AcceptedOrigin(algns, contig_id) ==
    FirstIndex([i \in 1..Len(algns) |-> OriginQualifies(algns[i], contig_id)])

\* trimmed_sequence.translate(...)[::-1]
ReverseComplement(s) == Reverse([i \in 1..Len(s) |-> Complement(s[i])])

\* faulty variant: the strand is ignored
BreakPoint_IgnoresStrand(algn) == algn.ref_start

BreakPoint(algn) ==
    IF OnSameStrand(algn)
    THEN algn.ref_start
    ELSE (algn.ref_length - algn.ref_start) - 1

\* faulty variant: the second slice stops one residue early
Rotate_DropsResidue(s, break_point) ==
    PySliceFrom(s, break_point) \o PySlice(s, 0, break_point - 1)

\* trimmed_sequence[break_point:] + trimmed_sequence[0:break_point]
Rotate(s, break_point) == PySliceFrom(s, break_point) \o PySlice(s, 0, break_point)

\* lines 133-143: the sequence stored for a contig with an origin hit
Orient(trimmed_sequence, algn) ==
    Rotate(IF OnSameStrand(algn) THEN trimmed_sequence
           ELSE ReverseComplement(trimmed_sequence),
           BreakPoint(algn))

ChromosomeName(n) ==
    <<"c", "h", "r", "o", "m", "o", "s", "o", "m", "e">> \o Str(n)

PlasmidName(n) == <<"p", "l", "a", "s", "m", "i", "d">> \o Str(n)

RECURSIVE RenameLoop(_, _, _, _, _, _)
\* the loop over the sorted contig_ids, from the k-th id on
RenameLoop(k, contig_ids, cs, names_map, plasmid_count, chromosome_count) ==
    IF k > Len(contig_ids)
    THEN [contigs |-> cs, names_map |-> names_map]
    ELSE LET contig_id == contig_ids[k]
             i == AcceptedOrigin(dnaA_alignments, contig_id)
         IN  IF i # 0
             THEN RenameLoop(k + 1, contig_ids,
                             [cs EXCEPT ![contig_id] =
                                 Orient(cs[contig_id], dnaA_alignments[i])],
                             DictSet(names_map, contig_id,
                                     ChromosomeName(chromosome_count)),
                             plasmid_count, chromosome_count + 1)
             ELSE RenameLoop(k + 1, contig_ids, cs,
                             DictSet(names_map, contig_id,
                                     PlasmidName(plasmid_count)),
                             plasmid_count + 1, chromosome_count)

\* faulty variant: the list is not sorted
SortedContigIds_Unsorted(contig_ids) == contig_ids

\* faulty variant: every contig of the store is processed
SortedContigIds_AllContigs(contig_ids) == SortIds(contig_keys)

\* contig_ids.sort(): sorts run()'s list in place
SortedContigIds(contig_ids) == SortIds(contig_ids)

CirculariseAndRename ==
    /\ pc = "intermediate"
    /\ LET contig_ids == SortedContigIds(circularisable_contigs)
           r == RenameLoop(1, contig_ids, contigs, EmptyDict, 1, 1)
       IN  /\ circularisable_contigs' = contig_ids
           /\ contigs' = r.contigs
           /\ new_names' = r.names_map
    /\ pc' = "renamed"
    /\ UNCHANGED <<run_no, fasta_file, files, contig_keys, alignments,
                   dnaA_alignments, config_vars>>

-----------------------------------------------------------------------------
(* the rest of run() *)

\* line 203: the circularisable contigs, under their new names
WriteCircularised ==
    /\ pc = "renamed"
    /\ files' = DictSet(files, UnsortedCircularisedFilename,
                        WriteContigs(circularisable_contigs, new_names))
    /\ pc' = "unsorted"
    /\ UNCHANGED <<run_no, fasta_file, contigs, contig_keys, alignments,
                   dnaA_alignments, config_vars, circularisable_contigs,
                   new_names>>

\* line 204
SortBySize ==
    /\ pc = "unsorted"
    /\ files' = DictSet(files, FinalFilename,
                        SortedBySize(files[UnsortedCircularisedFilename]))
    /\ pc' = "sorted"
    /\ UNCHANGED <<run_no, fasta_file, contigs, contig_keys, alignments,
                   dnaA_alignments, config_vars, circularisable_contigs,
                   new_names>>

\* lines 206-210
Cleanup ==
    /\ pc = "sorted"
    /\ files' = IF debug THEN files
                ELSE Delete(Delete(files, IntermediateFilename),
                            UnsortedCircularisedFilename)
    /\ pc' = "done"
    /\ UNCHANGED <<run_no, fasta_file, contigs, contig_keys, alignments,
                   dnaA_alignments, config_vars, circularisable_contigs,
                   new_names>>

-----------------------------------------------------------------------------
(* Inputs *)

c1 == <<"c", "1">>

c2 == <<"c", "2">>

c3 == <<"c", "3">>

c10 == <<"c", "1", "0">>

dnaA == <<"d", "a">>

InputFasta == <<"file.fa">>

Pattern == <<"A", "C", "G", "T", "T", "G", "a", "N", "C", "t">>

\* a contig of length L
Contig(L, shift) ==
    [i \in 1..L |-> Pattern[((i + shift - 1) % Len(Pattern)) + 1]]

\* a self-alignment reporting the first D residues of a contig of length L
\* again as its last D residues
TerminalDup(id, L, D, pid) ==
    Algn(id, id, 0, D - 1, L - D, L - 1, L, L, D, pid)

\* an alignment of an origin sequence of length 4 to positions rs..re of a contig
OriginHit(id, rs, re, rl, same, hl, pid) ==
    IF same = (rs < re)
    THEN Algn(id, dnaA, rs, re, 0, 3, rl, 4, hl, pid)
    ELSE Algn(id, dnaA, rs, re, 3, 0, rl, 4, hl, pid)

\* all sequences over S of length 0..n
RECURSIVE SeqsUpTo(_, _)
SeqsUpTo(S, n) ==
    IF n = 0 THEN {<< >>}
    ELSE LET shorter == SeqsUpTo(S, n - 1)
         IN  shorter \cup {Append(s, x) : s \in shorter, x \in S}

\* sequences without repetition over S of length 1..n
DistinctSeqs(S, n) ==
    {s \in SeqsUpTo(S, n) : s # << >> /\ \A i, j \in 1..Len(s) : i # j => s[i] # s[j]}

\* (overlap_offset, overlap_boundary_max) pairs, the default first
OverlapWindows ==
    {<<DefaultOverlapOffset, DefaultOverlapBoundaryMax>>, <<60, 60>>, <<30, 70>>}

Input(content, algns, origin, window, minlen, dbg) ==
    [content |-> content, alignments |-> algns, dnaA_alignments |-> origin,
     overlap_offset |-> window[1], overlap_boundary_max |-> window[2],
     overlap_min_length |-> minlen, debug |-> dbg]

DefaultWindow == <<DefaultOverlapOffset, DefaultOverlapBoundaryMax>>

\* one contig, one self-alignment with every combination of coordinates
GeometryInputs ==
    {Input(<<[name |-> c1, seq |-> Contig(MaxLen, 0)]>>,
           <<Algn(c1, c1, rs, re, qs, qe, MaxLen, MaxLen,
                  (IF re >= rs THEN re - rs ELSE rs - re) + 1, 99)>>,
           << >>, w, 0, FALSE) :
        rs \in 0..MaxLen, re \in 0..MaxLen, qs \in 0..MaxLen, qe \in 0..MaxLen,
        w \in OverlapWindows}

OverlapPool ==
    {TerminalDup(id, MaxLen, D, pid) :
        id \in {c1, c2}, D \in {1, 2}, pid \in {DefaultOverlapPercentIdentity, 99}}
    \cup {Algn(c1, c2, 0, 0, MaxLen - 1, MaxLen - 1, MaxLen, MaxLen, 1, 99),
          Algn(c1, c1, 0, 1, MaxLen - 2, MaxLen - 1, MaxLen, MaxLen + 1, 2, 99)}

\* one or two contigs, lists of self-alignments
OverlapListInputs ==
    {Input(content, algns, << >>, DefaultWindow, minlen, dbg) :
        content \in {<<[name |-> c1, seq |-> Contig(MaxLen, 0)]>>,
                     <<[name |-> c2, seq |-> Contig(MaxLen, 3)],
                       [name |-> c1, seq |-> Contig(MaxLen, 0)]>>},
        algns \in SeqsUpTo(OverlapPool, MaxAlgn),
        minlen \in {0, 1},
        dbg \in {FALSE}}

OriginQuality == {<<4, 99>>, <<4, DefaultDnaAHitPercentIdentity>>, <<3, 99>>}

\* one contig with a one-residue terminal duplication, one origin alignment
\* with every combination of position, length, strand and quality
OriginInputs ==
    {Input(<<[name |-> c1, seq |-> Contig(MaxLen, 0)]>>,
           <<TerminalDup(c1, MaxLen, 1, 99)>>,
           <<OriginHit(id, rs, rs + span, rl, same, q[1], q[2])>>,
           DefaultWindow, 0, dbg) :
        id \in {c1, c2}, rs \in 0..MaxLen, span \in 0..2,
        rl \in {MaxLen - 1, MaxLen}, same \in BOOLEAN, q \in OriginQuality,
        dbg \in BOOLEAN}

OriginPool ==
    {OriginHit(c1, rs, rs + 1, MaxLen - 1, same, q[1], q[2]) :
        rs \in {1, 2}, same \in BOOLEAN, q \in {<<4, 99>>, <<3, 99>>}}

\* one contig with a one-residue terminal duplication, lists of origin alignments
OriginListInputs ==
    {Input(<<[name |-> c1, seq |-> Contig(MaxLen, 0)]>>,
           <<TerminalDup(c1, MaxLen, 1, 99)>>, origin, DefaultWindow, 0, FALSE) :
        origin \in SeqsUpTo(OriginPool, MaxAlgn)}

ContigIds == {c1, c2, c3, c10}

\* the records of list whose index is in keep, in order
RECURSIVE Pick(_, _)
Pick(list, keep) ==
    IF list = << >> THEN << >>
    ELSE Pick(SubSeq(list, 1, Len(list) - 1), keep)
         \o (IF Len(list) \in keep THEN <<list[Len(list)]>> ELSE << >>)

\* several contigs in any order; any subset of them has a terminal
\* duplication, any subset an origin hit
NamingInputs ==
    {Input([k \in 1..Len(ids) |-> [name |-> ids[k], seq |-> Contig(4 + (k % 2), k)]],
           Pick([k \in 1..Len(ids) |-> TerminalDup(ids[k], 4 + (k % 2), 1, 99)], dup),
           Pick([k \in 1..Len(ids) |->
                    OriginHit(ids[Len(ids) + 1 - k], 1, 2, 3, k # 2, 4, 99)], hit),
           DefaultWindow, 0, FALSE) :
        ids \in DistinctSeqs(ContigIds, MaxContigs),
        dup \in SUBSET (1..MaxContigs), hit \in SUBSET (1..MaxContigs)}

Inputs == GeometryInputs \cup OverlapListInputs \cup OriginInputs
          \cup OriginListInputs \cup NamingInputs

-----------------------------------------------------------------------------
(* __init__ *)

\* the state after Circularisation(fasta_file = fasta, ...) with the given
\* alignments and thresholds
Construct(fasta, inp) ==
    /\ fasta_file = fasta
    /\ contigs = FileToDict(inp.content)
    /\ contig_keys = FileKeys(inp.content)
    /\ alignments = inp.alignments
    /\ dnaA_alignments = inp.dnaA_alignments
    /\ overlap_offset = inp.overlap_offset
    /\ overlap_boundary_max = inp.overlap_boundary_max
    /\ overlap_min_length = inp.overlap_min_length
    /\ overlap_percent_identity = DefaultOverlapPercentIdentity
    /\ dnaA_hit_percent_identity = DefaultDnaAHitPercentIdentity
    /\ dnaA_hit_length_minimum = DefaultDnaAHitLengthMinimum
    /\ debug = inp.debug

InitFrom(inputs) ==
    \E inp \in inputs :
        /\ pc = "start"
        /\ run_no = 1
        /\ files = (InputFasta :> inp.content)
        /\ circularisable_contigs = << >>
        /\ new_names = EmptyDict
        /\ Construct(InputFasta, inp)

Init == InitFrom(Inputs)

\* the alignments a second run may be given for the contigs of the first
\* run's output
RerunAlignments(content) ==
    {[alignments |-> << >>, dnaA_alignments |-> << >>]}
    \cup (IF content = << >> THEN {}
          ELSE LET id == content[1].name
                   L == Len(content[1].seq)
               IN  {[alignments |-> <<TerminalDup(id, L, 1, pid)>>,
                     dnaA_alignments |-> origin] :
                        pid \in {DefaultOverlapPercentIdentity, 99},
                        origin \in {<< >>, <<OriginHit(id, 1, 2, 3, TRUE, 4, 99)>>}})

\* a new Circularisation on the file the finished run has written, then run()
Rerun ==
    /\ pc = "done"
    /\ run_no = 1
    /\ LET content == files[FinalFilename]
       IN  /\ fasta_file' = FinalFilename
           /\ contigs' = FileToDict(content)
           /\ contig_keys' = FileKeys(content)
           /\ \E a \in RerunAlignments(content) :
                /\ alignments' = a.alignments
                /\ dnaA_alignments' = a.dnaA_alignments
    /\ run_no' = 2
    /\ pc' = "start"
    /\ circularisable_contigs' = << >>
    /\ new_names' = EmptyDict
    /\ UNCHANGED <<files, config_vars>>

Next ==
    \/ LookForOverlapAndTrim
    \/ WriteTrimmed
    \/ CirculariseAndRename
    \/ WriteCircularised
    \/ SortBySize
    \/ Cleanup
    \/ Rerun

Spec == Init /\ [][Next]_vars

-----------------------------------------------------------------------------
(* Properties *)

\* the contigs the current run was given: its input file is never rewritten
Original == FileToDict(files[fasta_file])

\* the overlap condition as the specification states it, for a contig of
\* length L before trimming
StatedOverlap(a, id, L) ==
    /\ a.ref_name = id
    /\ a.qry_name = id
    /\ 100 * a.ref_start < overlap_offset * L
    /\ 100 * a.ref_end < overlap_boundary_max * L
    /\ 100 * a.qry_end > overlap_boundary_max * L
    /\ 100 * a.qry_start > 100 * a.qry_length - overlap_offset * L
    /\ a.hit_length_ref > overlap_min_length
    /\ a.percent_identity > overlap_percent_identity

StatedOverlaps(id) ==
    {i \in 1..Len(alignments) : StatedOverlap(alignments[i], id, Len(Original[id]))}

Least(S) == CHOOSE i \in S : \A j \in S : i <= j

IsTerminalDuplication(a, L, D) ==
    /\ D >= 1
    /\ a.ref_start = 0 /\ a.ref_end = D - 1
    /\ a.qry_start = L - D /\ a.qry_end = L - 1
    /\ a.qry_length = L

\* C3: a contig whose accepted self-alignment is a terminal duplication of
\* length D is shortened by exactly D, to the original without one copy of
\* the duplicated end.
C3_TrimRemovesOneCopy ==
    pc = "trimmed" =>
        \A id \in Range(circularisable_contigs) :
            LET a == alignments[AcceptedOverlap(alignments, id, Len(Original[id]))]
                L == Len(Original[id])
                D == a.ref_end + 1
            IN  IsTerminalDuplication(a, L, D) =>
                    /\ Len(contigs[id]) = L - D
                    /\ \/ contigs[id] = SubSeq(Original[id], D + 1, L)
                       \/ contigs[id] = SubSeq(Original[id], 1, L - D)

\* an alignment whose coordinates fit a contig of length L
ConsistentWith(a, L) ==
    /\ a.qry_length = L
    /\ 0 <= a.ref_start /\ a.ref_start <= a.ref_end
    /\ a.qry_start <= a.qry_end /\ a.qry_end < L

\* what C10 concludes for the contigs accepted in the current state
AcceptedGeometry ==
    \A id \in Range(circularisable_contigs) :
        LET a == alignments[AcceptedOverlap(alignments, id, Len(Original[id]))]
        IN  ConsistentWith(a, Len(Original[id])) =>
                /\ a.ref_end < a.qry_start
                /\ contigs[id] # << >>
                /\ Len(contigs[id]) < Len(Original[id])

\* C10 as stated: with overlap_offset <= overlap_boundary_max, an accepted
\* alignment that fits the contig has ref_end < qry_start, and the trimmed
\* sequence is non-empty and strictly shorter than the original.
C10_GeometryAsStated ==
    (pc = "trimmed" /\ overlap_offset <= overlap_boundary_max) => AcceptedGeometry

\* C10 amended: the same conclusion when overlap_offset + overlap_boundary_max
\* is at most 100 percent.
C10_Geometry ==
    (pc = "trimmed" /\ overlap_offset + overlap_boundary_max <= 100)
        => AcceptedGeometry

\* C10 witness: an accepted alignment that fits the contig, the two fractions
\* summing to exactly 1
C10_Witness ==
    /\ pc = "trimmed"
    /\ overlap_offset + overlap_boundary_max = 100
    /\ \E id \in Range(circularisable_contigs) :
          LET a == alignments[AcceptedOverlap(alignments, id, Len(Original[id]))]
          IN  ConsistentWith(a, Len(Original[id])) /\ a.ref_start > 0


\* the origin condition as the specification states it
StatedOrigin(a, id) ==
    /\ a.ref_name = id
    /\ 100 * a.hit_length_ref > dnaA_hit_length_minimum * a.qry_length
    /\ a.percent_identity > dnaA_hit_percent_identity

StatedOrigins(id) ==
    {i \in 1..Len(dnaA_alignments) : StatedOrigin(dnaA_alignments[i], id)}

Listed == Range(circularisable_contigs)

\* how many listed ids with (hit = TRUE) or without an origin hit sort before id
Rank(id, hit) ==
    Cardinality({x \in Listed : (StatedOrigins(x) # {}) = hit /\ StrLess(x, id)})

\* C4: after _circularise_and_rename the name map has an entry for exactly the
\* listed ids; in ascending lexicographic order of id, whatever the order of
\* the input, the k-th contig with an origin hit is chromosome<k> and the m-th
\* without is plasmid<m>, so the names are chromosome1..K and plasmid1..M and
\* no two ids share one; c3,c1,c2 with hits on c1 and c3 give
\* c1:chromosome1, c2:plasmid1, c3:chromosome2.
C4_Naming ==
    pc = "renamed" =>
        LET chrom == {id \in Listed : StatedOrigins(id) # {}}
            plas == Listed \ chrom
        IN  /\ DOMAIN new_names = Listed
            /\ \A id \in chrom : new_names[id] = ChromosomeName(Rank(id, TRUE) + 1)
            /\ \A id \in plas : new_names[id] = PlasmidName(Rank(id, FALSE) + 1)
            /\ {new_names[id] : id \in chrom}
                   = {ChromosomeName(k) : k \in 1..Cardinality(chrom)}
            /\ {new_names[id] : id \in plas}
                   = {PlasmidName(m) : m \in 1..Cardinality(plas)}
            /\ \A x, y \in Listed : x # y => new_names[x] # new_names[y]
            /\ (Listed = {c1, c2, c3} /\ chrom = {c1, c3}) =>
                   /\ new_names[c1] = <<"c","h","r","o","m","o","s","o","m","e","1">>
                   /\ new_names[c2] = <<"p","l","a","s","m","i","d","1">>
                   /\ new_names[c3] = <<"c","h","r","o","m","o","s","o","m","e","2">>

\* C4 witness: the example, the contigs given in the order c3, c1, c2
C4_Witness ==
    /\ pc = "renamed"
    /\ contig_keys = <<c3, c1, c2>>
    /\ Listed = {c1, c2, c3}
    /\ {id \in Listed : StatedOrigins(id) # {}} = {c1, c3}
    /\ new_names[c3] = <<"c","h","r","o","m","o","s","o","m","e","2">>

\* the sequence of a contig as _look_for_overlap_and_trim left it (trimmed.fa
\* holds it until the end of run())
Trimmed(id) == FileToDict(files[IntermediateFilename])[id]

C6_OriginFirst ==
    pc = "renamed" =>
        \A id \in Listed :
            StatedOrigins(id) # {} =>
                LET s == Trimmed(id)
                    a == dnaA_alignments[Least(StatedOrigins(id))]
                    n == a.ref_end - a.ref_start + 1
                    region == SubSeq(s, a.ref_start + 1, a.ref_end + 1)
                IN  (/\ 0 <= a.ref_start /\ a.ref_start <= a.ref_end
                     /\ a.ref_end < Len(s)
                     /\ a.ref_length = Len(s))
                    => SubSeq(contigs[id], 1, n)
                           = (IF OnSameStrand(a) THEN region
                              ELSE ReverseComplement(region))

Count(s, ch) == Cardinality({i \in 1..Len(s) : s[i] = ch})

\* the same multiset of residues
SameResidues(s, t) == \A ch \in Range(s) \cup Range(t) : Count(s, ch) = Count(t, ch)

\* C7 as stated: for every contig with an accepted origin alignment, whatever
\* breakpoint b its record gives, the stored sequence has the length and the
\* multiset of residues of the sequence before, and
\* rotate(rotate(seq, L - b), b) = seq.
C7_RotationAsStated ==
    pc = "renamed" =>
        \A id \in Listed :
            StatedOrigins(id) # {} =>
                LET s == Trimmed(id)
                    b == BreakPoint(dnaA_alignments[Least(StatedOrigins(id))])
                IN  /\ Len(contigs[id]) = Len(s)
                    /\ SameResidues(contigs[id], s)
                    /\ Rotate(Rotate(s, Len(s) - b), b) = s

\* C7 amended: the stored sequence has the length of the sequence before; its
\* residues are those of the sequence before on the same strand and their
\* complements on the reverse strand; and rotate(rotate(seq, L - b), b) = seq
\* for the rotated sequence whenever 0 <= b <= L.
C7_Rotation ==
    pc = "renamed" =>
        \A id \in Listed :
            StatedOrigins(id) # {} =>
                LET s == Trimmed(id)
                    a == dnaA_alignments[Least(StatedOrigins(id))]
                    b == BreakPoint(a)
                    seq == IF OnSameStrand(a) THEN s ELSE ReverseComplement(s)
                IN  /\ Len(contigs[id]) = Len(s)
                    /\ SameResidues(contigs[id],
                                    IF OnSameStrand(a) THEN s
                                    ELSE [i \in 1..Len(s) |-> Complement(s[i])])
                    /\ (0 <= b /\ b <= Len(s))
                           => Rotate(Rotate(seq, Len(s) - b), b) = seq

\* C7 witness: a reverse-complement hit with a breakpoint strictly inside the
\* sequence moved the cut point
C7_Witness ==
    /\ pc = "renamed"
    /\ \E id \in Listed :
          /\ StatedOrigins(id) # {}
          /\ LET a == dnaA_alignments[Least(StatedOrigins(id))]
             IN  /\ ~OnSameStrand(a)
                 /\ 0 < BreakPoint(a) /\ BreakPoint(a) < Len(Trimmed(id))
                 /\ contigs[id] # ReverseComplement(Trimmed(id))

NoStatedOverlap == \A id \in DOMAIN Original : StatedOverlaps(id) = {}

\* C8 as stated: a second run on the output of the first, given
\* self-alignments with no qualifying overlap, writes an output that holds
\* the contigs of its input, with the same names and sequences.
C8_RerunAsStated ==
    (run_no = 2 /\ pc = "done" /\ NoStatedOverlap) =>
        Range(files[FinalFilename]) = Range(files[fasta_file])

\* C8 amended: such a second run trims, rotates and renames nothing (every
\* stored sequence is the input's, the circularisable list and the name map
\* are empty), and its output is empty.
C8_Rerun ==
    (run_no = 2 /\ pc = "done" /\ NoStatedOverlap) =>
        /\ contigs = Original
        /\ circularisable_contigs = << >>
        /\ new_names = EmptyDict
        /\ files[FinalFilename] = << >>

\* C8 witness: a second run over a non-empty output, given a self-alignment
\* that does not qualify
C8_Witness ==
    /\ run_no = 2
    /\ pc = "done"
    /\ NoStatedOverlap
    /\ files[fasta_file] # << >>
    /\ alignments # << >>

\* C9: after run() a contig without a qualifying self-alignment holds its
\* input sequence, is neither listed nor named, and the final output holds
\* exactly the circularisable contigs, each once, under its mapped name.
C9_Untouched ==
    pc = "done" =>
        LET out == files[FinalFilename]
        IN  /\ \A id \in DOMAIN Original :
                  StatedOverlaps(id) = {} =>
                      /\ contigs[id] = Original[id]
                      /\ id \notin Listed
                      /\ id \notin DOMAIN new_names
            /\ Listed = {id \in DOMAIN Original : StatedOverlaps(id) # {}}
            /\ Len(out) = Cardinality(Listed)
            /\ Range(out) = {[name |-> new_names[id], seq |-> contigs[id]] : id \in Listed}

\* C9 witness: a finished run with a listed contig and an unlisted contig that
\* a qualifying origin alignment names
C9_Witness ==
    /\ pc = "done"
    /\ Listed # {}
    /\ \E id \in DOMAIN Original :
          /\ StatedOverlaps(id) = {}
          /\ StatedOrigins(id) # {}
          /\ ~OnSameStrand(dnaA_alignments[Least(StatedOrigins(id))])

====
